---------------------------- MODULE Spec2Model ----------------------------
(***************************************************************************)
(* A model of ph_simulator_v4.py: the refrigeration cycle solver, the      *)
(* vapor dome sampler, the CoolProp adapter, the keyboard commands and the *)
(* frame renderer of RefrigerationSimImperial(Viz) and App.                *)
(*                                                                         *)
(* Numbers.  Python floats are modelled as exact rationals [n, d] in       *)
(* lowest terms (float rounding is not modelled).  Units: pressure in Pa   *)
(* (whole Pa), temperature in K, specific enthalpy in mJ/kg (so that the   *)
(* solver's 1e-3 J/kg floor is 1 and its 1e-6 J/kg epsilon is 1/1000),     *)
(* evaporating/condensing pressure in whole psia, superheat/subcooling in  *)
(* tenths of a degree F, compressor efficiency in hundredths.              *)
(*                                                                         *)
(* The property service (CoolProp) is outside the repository.  It is a     *)
(* deterministic function chosen at Init (variable svc): for each lookup   *)
(* the solver, the sampler or the renderer makes it either returns the     *)
(* value the world's profile gives, returns a non-finite value, or raises  *)
(* ValueError.  Its error texts contain neither "Dome" nor                 *)
(* "CoolProp Error:".                                                      *)
(***************************************************************************)
EXTENDS Integers, Sequences, FiniteSets, TLC

VARIABLES
    p_evap_psia,      \* self.p_evap_psia, whole psia
    p_cond_psia,      \* self.p_cond_psia, whole psia
    superheat_F,      \* self.superheat_F, tenths of a degree F
    subcooling_F,     \* self.subcooling_F, tenths of a degree F
    eta_comp,         \* self.eta_comp, hundredths
    state_points_si,  \* self.state_points_si: label -> <<>> (the empty dict) or <<record>>
    performance,      \* self.performance: each field <<>> (None) or <<value>>
    errors,           \* self.errors: sequence of [text, origin]; origin is a ghost
    dome_p_pa,        \* self.dome_p_pa
    dome_h_si,        \* self.dome_h_si: [liq, vap]
    svc,              \* the property service of this run
    keys,             \* number of key commands handled so far
    ret,              \* outcome of the last direct call of safe_coolprop_call
    snap              \* ghost: results of the last calculate_cycle, <<>> before any

vars == <<p_evap_psia, p_cond_psia, superheat_F, subcooling_F, eta_comp,
          state_points_si, performance, errors, dome_p_pa, dome_h_si,
          svc, keys, ret, snap>>

---------------------------------------------------------------------------
(* Bounds of the exploration. *)
MaxKeys == 2
MaxLog == 4
DomeSamples == 3

---------------------------------------------------------------------------
(* Exact rational arithmetic. *)
RECURSIVE GCD(_, _)
GCD(a, b) == IF b = 0 THEN a ELSE GCD(b, a % b)

Abs(x) == IF x < 0 THEN -x ELSE x

\* n/d in lowest terms with a positive denominator
Rat(n, d) ==
    LET s == IF d < 0 THEN -1 ELSE 1
        g == GCD(Abs(n), Abs(d))
    IN  [n |-> (s * n) \div g, d |-> (s * d) \div g]

RInt(k) == [n |-> k, d |-> 1]
Zero == RInt(0)
RAdd(a, b) ==
    LET g == GCD(a.d, b.d)
    IN  Rat(a.n * (b.d \div g) + b.n * (a.d \div g), (a.d \div g) * b.d)
RNeg(a) == [n |-> -a.n, d |-> a.d]
RSub(a, b) == RAdd(a, RNeg(b))
RMul(a, b) ==
    LET g1 == GCD(Abs(a.n), b.d)
        g2 == GCD(Abs(b.n), a.d)
        h1 == IF g1 = 0 THEN 1 ELSE g1
        h2 == IF g2 = 0 THEN 1 ELSE g2
    IN  Rat((a.n \div h1) * (b.n \div h2), (a.d \div h2) * (b.d \div h1))
RInv(a) == Rat(a.d, a.n)
RDiv(a, b) == RMul(a, RInv(b))
RLt(a, b) == a.n * b.d < b.n * a.d
RLe(a, b) == a.n * b.d <= b.n * a.d
RMax(a, b) == IF RLt(a, b) THEN b ELSE a
RMin(a, b) == IF RLt(b, a) THEN b ELSE a
RAbs(a) == [n |-> Abs(a.n), d |-> a.d]

(* Python's None / a value: <<>> / <<v>>. *)
None == <<>>
Some(v) == <<v>>
IsNone(o) == Len(o) = 0
Get(o) == o[1]

---------------------------------------------------------------------------
(* Unit conversions (lines 29-43). *)

\* p * PSIA_TO_PA, PSIA_TO_PA = 1000 / 0.1450377 = 6894.76 to six digits; whole Pa
PsiaToPa(p) == (p * 689476) \div 100

\* pa * PA_TO_PSIA, PA_TO_PSIA = 0.1450377 / 1000, as psia
PaToPsia(pa) == RMul(RMul(pa, Rat(1, 10000)), Rat(1450377, 1000000))

\* x * J_KG_TO_BTU_LB with x in mJ/kg; the result is in units of 1e-11 BTU/lb
JKgToBtuLb(x) == RMul(x, RInt(43021))

\* dF * DELTA_F_TO_DELTA_K with dF in tenths of a degree F; the result is in K
DeltaFToDeltaK(dF) == Rat(dF, 18)

---------------------------------------------------------------------------
(* Values handed to the adapter, and the error log's message texts. *)

\* An argument of safe_coolprop_call: a finite number, nan, inf, a non-empty
\* string (a non-numeric value) or None.
Num(r) == [t |-> "num", v |-> r]
NaN == [t |-> "nan", v |-> Zero]
Inf == [t |-> "inf", v |-> Zero]
Str == [t |-> "str", v |-> Zero]
Absent == [t |-> "none", v |-> Zero]

\* f"{(x or 0):.1f}" for a number, nan, inf or None: the number of tenths,
\* rounded to the nearest (None and 0 both print 0.0)
Fmt1(x) ==
    IF x.t = "num" THEN [s |-> "f", tenths |-> (20 * x.v.n + x.v.d) \div (2 * x.v.d)]
    ELSE IF x.t = "none" THEN [s |-> "f", tenths |-> 0]
    ELSE [s |-> x.t, tenths |-> 0]

NoFmt == [s |-> "", tenths |-> 0]

\* A fixed message
Msg(m) == [kind |-> m, why |-> "", out |-> "", i1 |-> "", v1 |-> NoFmt,
           i2 |-> "", v2 |-> NoFmt]

\* f"CP Error: {err_msg} calc {out}({i1}={v1:.1f},{i2}={v2:.1f})"
CPError(why, out, i1, v1, i2, v2) ==
    [kind |-> "CP Error:", why |-> why, out |-> out, i1 |-> i1, v1 |-> Fmt1(v1),
     i2 |-> i2, v2 |-> Fmt1(v2)]

MsgPressure == "P_evap must be < P_cond"
MsgEff == "Comp eff must be > 0"
MsgIsen == "Warning: Isentropic enthalpy rise <= 0"
MsgDomeRange == "Dome Calc: Invalid SI P range from PSIA."
MsgDomeUnexpected == "Unexpected Dome Calc Error:"

\* "Dome" in e
MentionsDome(text) == text.kind \in {MsgDomeRange, MsgDomeUnexpected}

\* "CoolProp Error:" in e: the adapter's messages start "CP Error:", and neither
\* "Invalid non-finite input" nor "CoolProp returned non-finite value (...)" nor
\* a service text holds the substring
MentionsCoolPropError(text) == text.kind = "CoolProp Error:"

Texts(errs) == {errs[i].text : i \in 1..Len(errs)}

\* if error_str not in self.errors: self.errors.append(error_str)
AppendOnce(errs, text, origin) ==
    IF text \in Texts(errs) THEN errs
    ELSE Append(errs, [text |-> text, origin |-> origin])

\* self.errors.append(m)
AppendAlways(errs, text, origin) == Append(errs, [text |-> text, origin |-> origin])

---------------------------------------------------------------------------
(* The property service adapter, safe_coolprop_call (lines 125-141).  oc   *)
(* is what CP.PropsSI does when it is reached: [k |-> "val", v |-> r]      *)
(* returns the finite r, k = "nonfinite" returns nan or inf, k = "raise"   *)
(* raises ValueError.  The result is the return value, the error log and   *)
(* whether an exception left the adapter.                                  *)

InputOk(v) == v.t = "num"

\* the except clause's f-string formats both inputs with :.1f, which raises
\* ValueError for a string
FormatRaises(v1, v2) == v1.t = "str" \/ v2.t = "str"

SafeCall(errs, origin, out, i1, v1, i2, v2, oc) ==
    LET inputs_ok == InputOk(v1) /\ InputOk(v2)
        why == IF ~inputs_ok THEN "Invalid non-finite input"
               ELSE IF oc.k = "nonfinite" THEN "CoolProp returned non-finite value"
               ELSE "service error"
    IN  IF inputs_ok /\ oc.k = "val"
        THEN [ret |-> Some(oc.v), errors |-> errs, escaped |-> FALSE]
        ELSE IF FormatRaises(v1, v2)
        THEN [ret |-> None, errors |-> errs, escaped |-> TRUE]
        ELSE [ret |-> None,
              errors |-> AppendOnce(errs, CPError(why, out, i1, v1, i2, v2), origin),
              escaped |-> FALSE]

---------------------------------------------------------------------------
(* The property service.  A lookup is named by the place that makes it:    *)
(*   Tse, Tsc   T(P=p_evap,Q=1), T(P=p_cond,Q=0)      lines 199-200, 468-469 *)
(*   h1, s1     H, S at (p_evap, T1)                    lines 205-206        *)
(*   h2s, T2s   H, T at (p_cond, s1)                    lines 212-213        *)
(*   T2, s2     T, S at (p_cond, h2)                    lines 223-224        *)
(*   h3, s3     H, S at (p_cond, T3)                    lines 230-231        *)
(*   T4, s4, q4 T, S, Q at (p_evap, h4)                 lines 237-239        *)
(*   Tm_e, Tm_c T(P,Q=0.5) at p_evap, p_cond            line 379             *)
(*   hl_e, hv_e, hl_c, hv_c  H(P,Q=0), H(P,Q=1)         lines 397-398        *)
(*   pcrit, apex, liq i, vap i                          lines 150, 165-173   *)
(* A query is <<name, i>>, i = 0 except for the dome's samples.            *)

CycleQueries == {<<q, 0>> : q \in {"Tse", "Tsc", "h1", "s1", "h2s", "T2s", "T2",
                                   "s2", "h3", "s3", "T4", "s4", "q4"}}
FrameQueries == {<<q, 0>> : q \in {"Tm_e", "Tm_c", "hl_e", "hv_e", "hl_c", "hv_c"}}
DomeQueries == {<<"pcrit", 0>>, <<"apex", 0>>}
                 \cup {<<b, i>> : b \in {"liq", "vap"}, i \in 0..(DomeSamples - 1)}
Queries == CycleQueries \cup FrameQueries \cup DomeQueries

\* The values a service returns where it succeeds.
Normal ==
    [pcrit |-> RInt(4000000), liq |-> RInt(1), vap |-> RInt(4), apex |-> RInt(3),
     Tse |-> RInt(270), Tsc |-> RInt(320),
     h1 |-> RInt(5), s1 |-> RInt(2), h2s |-> RInt(7), T2s |-> RInt(340),
     T2 |-> RInt(350), s2 |-> Rat(21, 10), h3 |-> RInt(2), s3 |-> RInt(1),
     T4 |-> RInt(270), s4 |-> Rat(11, 10), q4 |-> Rat(3, 10),
     Tm_e |-> RInt(270), Tm_c |-> RInt(320),
     hl_e |-> RInt(1), hv_e |-> RInt(4), hl_c |-> RInt(2), hv_c |-> RInt(6)]

\* ideal outlet enthalpy equal to and below the inlet's (the first with a
\* critical pressure of 290 psia, inside the pressure axis)
ZeroWork == [Normal EXCEPT !.h2s = RInt(5), !.pcrit = RInt(2000000)]
NegWork == [Normal EXCEPT !.h2s = RInt(4)]
\* ideal outlet enthalpy 7.5e-7 J/kg above the inlet's: an actual work of
\* 1e-6 J/kg at efficiency 0.75, less above it and more below it (and a
\* critical pressure below the pressure axis)
TinyWork == [Normal EXCEPT !.h2s = Rat(20003, 4000), !.pcrit = RInt(50000)]
\* a low critical pressure (290 psia, inside the pressure axis) with an apex
\* enthalpy of 240 kJ/kg (103 BTU/lb, inside the enthalpy axis), points 2
\* and 4 at saturation temperature and a quality outside [0, 1]
NearSat == [Normal EXCEPT !.pcrit = RInt(2000000), !.apex = RInt(240000000),
                          !.T2 = RInt(320), !.q4 = RInt(-1), !.h3 = RInt(3)]

Profiles == {Normal, ZeroWork, NegWork, TinyWork, NearSat}

\* A service: a profile, the lookups that fail (none or one) and how they fail
Worlds ==
    {[prof |-> p, fault |-> {}, how |-> "raise"] : p \in Profiles}
    \cup {[prof |-> p, fault |-> {q}, how |-> h] :
            p \in Profiles, q \in Queries, h \in {"raise", "nonfinite"}}

\* The services a session is explored with: every profile without a failing
\* lookup, and the Normal profile with each single lookup that raises
SessionWorlds ==
    {w \in Worlds : w.fault = {} \/ (w.prof = Normal /\ w.how = "raise")}

\* The services the solver and the sampler are explored with on their own:
\* as above, and the ZeroWork profile with each single failing lookup
SolverWorlds ==
    {w \in Worlds : w.fault = {} \/ w.prof \in {Normal, ZeroWork}}

\* CP.PropsSI for query <<name, i>> under service w
Lookup(w, name, i) ==
    IF <<name, i>> \in w.fault THEN [k |-> w.how, v |-> Zero]
    ELSE [k |-> "val", v |-> w.prof[name]]

---------------------------------------------------------------------------
(* The cycle solver, calculate_cycle (lines 185-252). *)

Labels == {"1", "2s", "2", "3", "4"}

\* {'1': {}, '2': {}, '2s': {}, '3': {}, '4': {}}
EmptyPoints == [k \in Labels |-> None]

\* {'COP': None, 'Q_evap_btu_lb': None, 'W_comp_btu_lb': None, 'Q_cond_btu_lb': None}
EmptyPerf == [COP |-> None, Q_evap_btu_lb |-> None, W_comp_btu_lb |-> None,
              Q_cond_btu_lb |-> None]

Point(p, h, s, T, Q) == Some([p |-> p, h |-> h, s |-> s, T |-> T, Q |-> Q])

\* A filter that drops the adapter's messages ("CP Error:" for "CoolProp Error:")
DropsAdapterErrors(e) == e.text.kind # "CP Error:"

\* line 187: the entries the solver keeps when it starts
CycleKeeps(e) == ~MentionsCoolPropError(e.text)

\* A solver that starts from the stored state points
KeepPoints(old) == old

\* line 188: the state points the solver starts from
ResetPoints(old) == EmptyPoints

\* A solver that starts from the stored performance record
KeepPerf(old) == old

\* line 189: the performance record the solver starts from
ResetPerf(old) == EmptyPerf

\* A pressure check that lets equal pressures through
StrictlyAbove(p_evap_pa, p_cond_pa) == p_evap_pa > p_cond_pa

\* line 196: if p_evap_pa >= p_cond_pa
InvariantViolated(p_evap_pa, p_cond_pa) == p_evap_pa >= p_cond_pa

\* The isentropic work without the floor
NoFloor(h1, h2s) == RSub(h2s, h1)

\* lines 219-221: the isentropic work used for point 2 (mJ/kg)
IsenWork(h1, h2s) ==
    LET w == RSub(h2s, h1) IN IF RLe(w, Zero) THEN RInt(1) ELSE w

\* lines 220-221: the warning is logged when the work is not positive
IsenLog(errs, h1, h2s) ==
    IF RLe(RSub(h2s, h1), Zero) THEN AppendAlways(errs, Msg(MsgIsen), "cycle") ELSE errs

\* line 222: h2_si = h1_si + w_comp_isentropic_si / self.eta_comp
ActualOutletH(h1, w, eta) == RAdd(h1, RDiv(w, Rat(eta, 100)))

\* A coefficient of performance defined for any positive work
CopAnyPositive(q_evap, w_actual) ==
    IF RLt(Zero, w_actual) THEN Some(RDiv(q_evap, w_actual)) ELSE None

\* lines 250-252: COP = q_evap / w_comp_actual when w_comp_actual > 1e-6
CopOf(q_evap, w_actual) ==
    IF RLt(Rat(1, 1000), w_actual) THEN Some(RDiv(q_evap, w_actual)) ELSE None

\* lines 244-252
PerfOf(h1, h2, h3, h4) ==
    LET q_evap == RSub(h1, h4)
        w_actual == RSub(h2, h1)
        q_cond == RSub(h2, h3)
    IN  [COP |-> CopOf(q_evap, w_actual),
         Q_evap_btu_lb |-> Some(JKgToBtuLb(q_evap)),
         W_comp_btu_lb |-> Some(JKgToBtuLb(w_actual)),
         Q_cond_btu_lb |-> Some(JKgToBtuLb(q_cond))]

Out(pts, perf, e) == [points |-> pts, perf |-> perf, errors |-> e]

\* lines 235-252: point 4 and the performance record
CyclePoint4(c, errs, pts, h1_si, h2_si, h3_si) ==
    LET h4_si == h3_si
        g1 == SafeCall(errs, "cycle", "T", "P", c.PE, "H", Num(h4_si), Lookup(c.w, "T4", 0))
        g2 == SafeCall(g1.errors, "cycle", "S", "P", c.PE, "H", Num(h4_si), Lookup(c.w, "s4", 0))
        g3 == SafeCall(g2.errors, "cycle", "Q", "P", c.PE, "H", Num(h4_si), Lookup(c.w, "q4", 0))
    IN  IF IsNone(g1.ret) \/ IsNone(g2.ret) \/ IsNone(g3.ret)
        THEN Out(pts, c.perf0, g3.errors)
        ELSE Out([pts EXCEPT !["4"] =
                      Point(c.p_evap_pa, h4_si, Get(g2.ret), Get(g1.ret), g3.ret)],
                 PerfOf(h1_si, h2_si, h3_si, h4_si), g3.errors)

\* lines 228-233: point 3
CyclePoint3(c, errs, pts, T_sat_cond_k, h1_si, h2_si) ==
    LET T3_k == RSub(T_sat_cond_k, RMax(Rat(1, 100), c.delta_T_sc_k))
        f1 == SafeCall(errs, "cycle", "H", "P", c.PC, "T", Num(T3_k), Lookup(c.w, "h3", 0))
        f2 == SafeCall(f1.errors, "cycle", "S", "P", c.PC, "T", Num(T3_k), Lookup(c.w, "s3", 0))
    IN  IF IsNone(f1.ret) \/ IsNone(f2.ret) THEN Out(pts, c.perf0, f2.errors)
        ELSE CyclePoint4(c, f2.errors,
                         [pts EXCEPT !["3"] =
                              Point(c.p_cond_pa, Get(f1.ret), Get(f2.ret), T3_k, Some(Zero))],
                         h1_si, h2_si, Get(f1.ret))

\* lines 217-226: point 2
CyclePoint2(c, errs, pts, T_sat_cond_k, h1_si, h2s_si) ==
    LET eIsen == IsenLog(errs, h1_si, h2s_si)
        h2_si == ActualOutletH(h1_si, IsenWork(h1_si, h2s_si), c.eta)
        d1 == SafeCall(eIsen, "cycle", "T", "P", c.PC, "H", Num(h2_si), Lookup(c.w, "T2", 0))
        d2 == SafeCall(d1.errors, "cycle", "S", "P", c.PC, "H", Num(h2_si), Lookup(c.w, "s2", 0))
    IN  IF c.eta <= 0 THEN Out(pts, c.perf0, AppendAlways(errs, Msg(MsgEff), "cycle"))
        ELSE IF IsNone(d1.ret) \/ IsNone(d2.ret) THEN Out(pts, c.perf0, d2.errors)
        ELSE CyclePoint3(c, d2.errors,
                         [pts EXCEPT !["2"] =
                              Point(c.p_cond_pa, h2_si, Get(d2.ret), Get(d1.ret), None)],
                         T_sat_cond_k, h1_si, h2_si)

\* lines 210-215: point 2s
CyclePoint2s(c, errs, pts, T_sat_cond_k, h1_si, s1_si) ==
    LET s2s_si == s1_si
        c1 == SafeCall(errs, "cycle", "H", "P", c.PC, "S", Num(s2s_si), Lookup(c.w, "h2s", 0))
        c2 == SafeCall(c1.errors, "cycle", "T", "P", c.PC, "S", Num(s2s_si), Lookup(c.w, "T2s", 0))
    IN  IF IsNone(c1.ret) \/ IsNone(c2.ret) THEN Out(pts, c.perf0, c2.errors)
        ELSE CyclePoint2(c, c2.errors,
                         [pts EXCEPT !["2s"] =
                              Point(c.p_cond_pa, Get(c1.ret), s2s_si, Get(c2.ret), None)],
                         T_sat_cond_k, h1_si, Get(c1.ret))

\* lines 203-208: point 1
CyclePoint1(c, errs, pts, T_sat_evap_k, T_sat_cond_k) ==
    LET T1_k == RAdd(T_sat_evap_k, RMax(Rat(1, 100), c.delta_T_sh_k))
        b1 == SafeCall(errs, "cycle", "H", "P", c.PE, "T", Num(T1_k), Lookup(c.w, "h1", 0))
        b2 == SafeCall(b1.errors, "cycle", "S", "P", c.PE, "T", Num(T1_k), Lookup(c.w, "s1", 0))
    IN  IF IsNone(b1.ret) \/ IsNone(b2.ret) THEN Out(pts, c.perf0, b2.errors)
        ELSE CyclePoint2s(c, b2.errors,
                          [pts EXCEPT !["1"] =
                               Point(c.p_evap_pa, Get(b1.ret), Get(b2.ret), T1_k,
                                     Some(RInt(1)))],
                          T_sat_cond_k, Get(b1.ret), Get(b2.ret))

\* lines 196-201: the pressure check and the saturation temperatures
CycleSat(c, errs, pts) ==
    LET a1 == SafeCall(errs, "cycle", "T", "P", c.PE, "Q", Num(RInt(1)), Lookup(c.w, "Tse", 0))
        a2 == SafeCall(a1.errors, "cycle", "T", "P", c.PC, "Q", Num(Zero), Lookup(c.w, "Tsc", 0))
    IN  IF InvariantViolated(c.p_evap_pa, c.p_cond_pa)
        THEN Out(pts, c.perf0, AppendAlways(errs, Msg(MsgPressure), "cycle"))
        ELSE IF IsNone(a1.ret) \/ IsNone(a2.ret) THEN Out(pts, c.perf0, a2.errors)
        ELSE CyclePoint1(c, a2.errors, pts, Get(a1.ret), Get(a2.ret))

\* calculate_cycle on stored results oldPts, oldPerf, log errs0, the five
\* parameters and service w: the new state points, performance and log
CalcCycle(oldPts, oldPerf, errs0, pe, pc, sh, sc, eta, w) ==
    CycleSat([p_evap_pa |-> PsiaToPa(pe), p_cond_pa |-> PsiaToPa(pc),
              PE |-> Num(RInt(PsiaToPa(pe))), PC |-> Num(RInt(PsiaToPa(pc))),
              delta_T_sh_k |-> DeltaFToDeltaK(sh), delta_T_sc_k |-> DeltaFToDeltaK(sc),
              eta |-> eta, w |-> w, perf0 |-> ResetPerf(oldPerf)],
             SelectSeq(errs0, CycleKeeps), ResetPoints(oldPts))

---------------------------------------------------------------------------
(* The dome sampler, calculate_dome (lines 143-182). *)

\* self.p_min_psia, self.p_max_psia (lines 87-88)
p_min_psia == 10
p_max_psia == 400

\* line 147: the entries the sampler keeps when it starts
DomeKeeps(e) == ~MentionsDome(e.text)

\* Sample pressures running from the upper bound down
SampleDescending(ps, pe, i) ==
    RSub(pe, RMul(RSub(pe, ps), Rat(i, DomeSamples - 1)))

\* np.logspace(log10(ps), log10(pe), n)[i]: n pressures from ps to pe in
\* increasing order (spaced evenly here, not logarithmically)
SamplePressure(ps, pe, i) ==
    RAdd(ps, RMul(RSub(pe, ps), Rat(i, DomeSamples - 1)))

EmptyDome == [p |-> <<>>, liq |-> <<>>, vap |-> <<>>]

\* lines 164-170, from sample i on
RECURSIVE DomeLoop(_, _, _, _, _, _)
DomeLoop(i, dome, errs, ps, pe, w) ==
    IF i >= DomeSamples THEN [dome |-> dome, errors |-> errs]
    ELSE LET p_pa == SamplePressure(ps, pe, i)
             l == SafeCall(errs, "dome", "H", "P", Num(p_pa), "Q", Num(Zero),
                           Lookup(w, "liq", i))
             v == SafeCall(l.errors, "dome", "H", "P", Num(p_pa), "Q", Num(RInt(1)),
                           Lookup(w, "vap", i))
             kept == IF ~IsNone(l.ret) /\ ~IsNone(v.ret)
                     THEN [p |-> Append(dome.p, p_pa),
                           liq |-> Append(dome.liq, Get(l.ret)),
                           vap |-> Append(dome.vap, Get(v.ret))]
                     ELSE dome
         IN  DomeLoop(i + 1, kept, v.errors, ps, pe, w)

\* line 176: the apex is appended when the critical pressure is on the pressure axis
ApexInWindow(p_crit_psia) ==
    RLe(RInt(p_min_psia), p_crit_psia) /\ RLe(p_crit_psia, RInt(p_max_psia))

\* lines 172-179: the apex, after the samples
DomeApex(loop, crit_p_pa, p_end_pa, w) ==
    LET a == SafeCall(loop.errors, "dome", "H", "P", Num(crit_p_pa), "Q", Num(Rat(1, 2)),
                      Lookup(w, "apex", 0))
    IN  IF ~RLt(RMul(crit_p_pa, Rat(9, 10)), p_end_pa) THEN loop
        ELSE IF IsNone(a.ret) THEN [dome |-> loop.dome, errors |-> a.errors]
        ELSE IF ApexInWindow(PaToPsia(crit_p_pa))
        THEN [dome |-> [p |-> Append(loop.dome.p, crit_p_pa),
                        liq |-> Append(loop.dome.liq, Get(a.ret)),
                        vap |-> Append(loop.dome.vap, Get(a.ret))],
              errors |-> a.errors]
        ELSE [dome |-> loop.dome, errors |-> a.errors]

\* lines 153-179, once the critical pressure is known
DomeRange(errs, crit_p_pa, p_start_pa, p_end_pa, w) ==
    IF RLe(p_end_pa, p_start_pa)
    THEN [dome |-> EmptyDome, errors |-> AppendAlways(errs, Msg(MsgDomeRange), "dome")]
    ELSE DomeApex(DomeLoop(0, EmptyDome, errs, p_start_pa, p_end_pa, w),
                  crit_p_pa, p_end_pa, w)

\* lines 150-156
DomeCrit(c, w) ==
    IF IsNone(c.ret) THEN [dome |-> EmptyDome, errors |-> c.errors]
    ELSE DomeRange(c.errors, Get(c.ret),
                   RMax(RInt(1000), RInt(PsiaToPa(p_min_psia))),
                   RMin(RInt(PsiaToPa(p_max_psia)), RMul(Get(c.ret), Rat(999, 1000))), w)

\* calculate_dome on log errs0 with service w: the new dome curve and log
CalcDome(errs0, w) ==
    DomeCrit(SafeCall(SelectSeq(errs0, DomeKeeps), "dome", "pcrit", "", Num(Zero), "",
                      Num(Zero), Lookup(w, "pcrit", 0)), w)

---------------------------------------------------------------------------
(* Rendering, RefrigerationSimImperialViz.draw (lines 539-544).  Drawing   *)
(* reads the results; what it can change is the error log, through the     *)
(* lookups of draw_info_panel (lines 468-469) and get_state_description    *)
(* (lines 373-403).                                                        *)

\* get_state_description for one point: the error log after its lookups.
\* tm, hl, hv name the service's answers at the point's pressure.
DescribeLookups(errs, pt, w, tm, hl, hv) ==
    IF IsNone(pt) THEN errs
    ELSE LET st == Get(pt)
             P == Num(RInt(st.p))
             t == SafeCall(errs, "frame", "T", "P", P, "Q", Num(Rat(1, 2)), Lookup(w, tm, 0))
             T_sat_k == Get(t.ret)
             tol == Rat(1, 10)
             q == Get(st.Q)
             small == Rat(1, 10000)
             byQuality ==
                 /\ ~IsNone(st.Q)
                 /\ \/ RLt(RAbs(q), small)
                    \/ RLt(RAbs(RSub(q, RInt(1))), small)
                    \/ RLt(Zero, q) /\ RLt(q, RInt(1))
             nearSat == /\ ~RLt(st.T, RSub(T_sat_k, tol))
                        /\ ~RLt(RAdd(T_sat_k, tol), st.T)
             l == SafeCall(t.errors, "frame", "H", "P", P, "Q", Num(Zero), Lookup(w, hl, 0))
             v == SafeCall(l.errors, "frame", "H", "P", P, "Q", Num(RInt(1)), Lookup(w, hv, 0))
         IN  IF IsNone(t.ret) THEN t.errors
             ELSE IF byQuality THEN t.errors
             ELSE IF nearSat /\ st.h # Zero THEN v.errors
             ELSE t.errors

\* the error log after one frame
DrawLog(errs, pts, pe, pc, w) ==
    LET e1 == SafeCall(errs, "frame", "T", "P", Num(RInt(PsiaToPa(pe))), "Q",
                       Num(RInt(1)), Lookup(w, "Tse", 0)).errors
        e2 == SafeCall(e1, "frame", "T", "P", Num(RInt(PsiaToPa(pc))), "Q",
                       Num(Zero), Lookup(w, "Tsc", 0)).errors
        d1 == DescribeLookups(e2, pts["1"], w, "Tm_e", "hl_e", "hv_e")
        d2 == DescribeLookups(d1, pts["2"], w, "Tm_c", "hl_c", "hv_c")
        d3 == DescribeLookups(d2, pts["3"], w, "Tm_c", "hl_c", "hv_c")
    IN  DescribeLookups(d3, pts["4"], w, "Tm_e", "hl_e", "hv_e")

---------------------------------------------------------------------------
(* Commands, handle_input (lines 313-343). *)

\* reset_parameters (lines 104-110)
Defaults == [pe |-> 35, pc |-> 160, sh |-> 100, sc |-> 50, eta |-> 75]

Max(a, b) == IF a < b THEN b ELSE a
Min(a, b) == IF a < b THEN a ELSE b

KeyNames == {"RIGHT", "LEFT", "UP", "DOWN", "s", "x", "a", "z", "e", "d",
             "l", "h", "c", "v", "r"}

\* A margin lowered without a floor
LowerWithoutFloor(v, step, floor) == v - step

\* lines 325, 327, 333: max(floor, v - step), in tenths of a degree F
LowerMargin(v, step, floor) == Max(floor, v - step)

\* lines 319-337: the parameters after the key's own assignment
Transform(key, P) ==
    CASE key = "RIGHT" -> [P EXCEPT !.pe = @ + 1]
      [] key = "LEFT"  -> [P EXCEPT !.pe = @ - 1]
      [] key = "UP"    -> [P EXCEPT !.pc = @ + 2]
      [] key = "DOWN"  -> [P EXCEPT !.pc = @ - 2]
      [] key = "s"     -> [P EXCEPT !.sh = @ + 10]
      [] key = "x"     -> [P EXCEPT !.sh = LowerMargin(@, 10, 1)]
      [] key = "a"     -> [P EXCEPT !.sc = @ + 10]
      [] key = "z"     -> [P EXCEPT !.sc = LowerMargin(@, 10, 1)]
      [] key = "e"     -> [P EXCEPT !.eta = Min(100, @ + 1)]
      [] key = "d"     -> [P EXCEPT !.eta = Max(10, @ - 1)]
      [] key = "l"     -> [P EXCEPT !.pe = @ - 5, !.sh = @ + 100]
      [] key = "h"     -> [P EXCEPT !.pc = @ + 10, !.sh = LowerMargin(@, 100, 10)]
      [] key = "c"     -> [P EXCEPT !.pc = @ + 10]
      [] key = "v"     -> [P EXCEPT !.pe = @ - 5]
      [] key = "r"     -> Defaults

\* A clamp of the evaporating pressure with min and max exchanged
ClampEvapSwapped(pe) == Min(p_min_psia, Max(p_max_psia - 2, pe))

\* line 341
ClampEvap(pe) == Max(p_min_psia, Min(p_max_psia - 2, pe))

\* A clamp of the condensing pressure that adds the margin to its result
ClampCondAddsMargin(pe, pc) == Max(pe, Min(p_max_psia, pc)) + 5

\* A clamp of the condensing pressure to the axis only
ClampCondToAxis(pe, pc) == Min(p_max_psia, pc)

\* line 342
ClampCond(pe, pc) == Max(pe + 5, Min(p_max_psia, pc))

\* lines 340-342
Clamp(P) ==
    LET pe == ClampEvap(P.pe)
    IN  [P EXCEPT !.pe = pe, !.pc = ClampCond(pe, P.pc)]

Params == [pe |-> p_evap_psia, pc |-> p_cond_psia, sh |-> superheat_F,
           sc |-> subcooling_F, eta |-> eta_comp]

SetParams(P) ==
    /\ p_evap_psia' = P.pe
    /\ p_cond_psia' = P.pc
    /\ superheat_F' = P.sh
    /\ subcooling_F' = P.sc
    /\ eta_comp' = P.eta

\* A command that leaves the stored results as they are
NoRecalculate(P) == UNCHANGED <<state_points_si, performance, errors>>

\* self.calculate_cycle() on parameters P, as an update of the results
Recalculate(P) ==
    \E r \in {CalcCycle(state_points_si, performance, errors,
                        P.pe, P.pc, P.sh, P.sc, P.eta, svc)} :
        /\ Len(r.errors) <= MaxLog
        /\ state_points_si' = r.points
        /\ performance' = r.perf
        /\ errors' = r.errors

\* handle_input for one of the keys it handles
HandleInput(key) ==
    /\ keys < MaxKeys
    /\ keys' = keys + 1
    /\ \E P \in {Clamp(Transform(key, Params))} : SetParams(P) /\ Recalculate(P)
    /\ UNCHANGED <<dome_p_pa, dome_h_si, svc, ret, snap>>

\* App.run on VIDEORESIZE, K_f, or K_ESCAPE in fullscreen (lines 578-595):
\* update_layout (plot geometry, not modelled) and calculate_cycle
Resize ==
    /\ Recalculate(Params)
    /\ UNCHANGED <<p_evap_psia, p_cond_psia, superheat_F, subcooling_F, eta_comp,
                   dome_p_pa, dome_h_si, svc, keys, ret, snap>>

\* App.run, line 599: self.sim.draw(self.screen)
Draw ==
    /\ errors' = DrawLog(errors, state_points_si, p_evap_psia, p_cond_psia, svc)
    /\ Len(errors') <= MaxLog
    /\ UNCHANGED <<p_evap_psia, p_cond_psia, superheat_F, subcooling_F, eta_comp,
                   state_points_si, performance, dome_p_pa, dome_h_si, svc, keys,
                   ret, snap>>

---------------------------------------------------------------------------
(* The session: App.__init__ builds the simulation (lines 58-102), then    *)
(* App.run handles events and draws frames.                                *)

NoCall == [k |-> "idle", v |-> Zero, out |-> "", i1 |-> "", a1 |-> Absent,
           i2 |-> "", a2 |-> Absent]

NormalWorld == [prof |-> Normal, fault |-> {}, how |-> "raise"]

\* Parameter states a session reaches from the defaults while every lookup
\* succeeds (the log stays empty): 24 x LEFT; 120 x RIGHT; 119 x UP;
\* 360 x RIGHT; 64 x d; 25 x e; 9 x x and 4 x z
Visited ==
    {[Defaults EXCEPT !.pe = 11],
     [Defaults EXCEPT !.pe = 155],
     [Defaults EXCEPT !.pc = 398],
     [Defaults EXCEPT !.pe = 395, !.pc = 400],
     [Defaults EXCEPT !.eta = 11],
     [Defaults EXCEPT !.eta = 100],
     [Defaults EXCEPT !.sh = 10, !.sc = 10]}

\* __init__ with service w, followed by the keys that lead to P
Built(P, w) ==
    LET dome == CalcDome(<<>>, w)
        cyc == CalcCycle(EmptyPoints, EmptyPerf, dome.errors,
                         P.pe, P.pc, P.sh, P.sc, P.eta, w)
    IN  /\ svc = w
        /\ p_evap_psia = P.pe
        /\ p_cond_psia = P.pc
        /\ superheat_F = P.sh
        /\ subcooling_F = P.sc
        /\ eta_comp = P.eta
        /\ dome_p_pa = dome.dome.p
        /\ dome_h_si = [liq |-> dome.dome.liq, vap |-> dome.dome.vap]
        /\ state_points_si = cyc.points
        /\ performance = cyc.perf
        /\ errors = cyc.errors
        /\ keys = 0
        /\ ret = NoCall
        /\ snap = None

Init ==
    \/ \E w \in SessionWorlds : Built(Defaults, w)
    \/ \E P \in Visited : Built(P, NormalWorld)

Next ==
    \/ \E key \in KeyNames : HandleInput(key)
    \/ Resize
    \/ Draw

Spec == Init /\ [][Next]_vars

---------------------------------------------------------------------------
(* The solver and the sampler on their own: calculate_cycle and            *)
(* calculate_dome called on a simulation holding any of a set of           *)
(* parameters, earlier results and earlier log entries.                    *)

\* the defaults; condensing below, and equal to, evaporating pressure; full,
\* zero and negative efficiency; no superheat and no subcooling
SolverParams ==
    {Defaults,
     [Defaults EXCEPT !.pe = 160, !.pc = 35],
     [Defaults EXCEPT !.pe = 100, !.pc = 100],
     [Defaults EXCEPT !.eta = 100],
     [Defaults EXCEPT !.eta = 0],
     [Defaults EXCEPT !.sh = 0, !.sc = 0]}

\* what a successful solve at other parameters left behind
Earlier == CalcCycle(EmptyPoints, EmptyPerf, <<>>, 30, 150, 120, 40, 80, NormalWorld)

\* entries of earlier runs: the dome's first liquid lookup failed, the range
\* was invalid, the isentropic work was not positive
EarlierLog ==
    <<[text |-> CPError("service error", "H", "P", Num(RInt(68947)), "Q", Num(Zero)),
       origin |-> "dome"],
      [text |-> Msg(MsgIsen), origin |-> "cycle"]>>

SolverInit ==
    /\ \E P \in SolverParams :
          /\ p_evap_psia = P.pe
          /\ p_cond_psia = P.pc
          /\ superheat_F = P.sh
          /\ subcooling_F = P.sc
          /\ eta_comp = P.eta
    /\ svc \in SolverWorlds
    /\ \/ state_points_si = EmptyPoints /\ performance = EmptyPerf /\ errors = <<>>
       \/ /\ state_points_si = Earlier.points
          /\ performance = Earlier.perf
          /\ errors = EarlierLog
    /\ dome_p_pa = <<>>
    /\ dome_h_si = [liq |-> <<>>, vap |-> <<>>]
    /\ keys = 0
    /\ ret = NoCall
    /\ snap = None

\* self.calculate_cycle().  snap notes the results, the state points that
\* were stored before the call, and whether this is a first or a later call.
SolveCycle ==
    /\ Recalculate(Params)
    /\ snap' = Some([points |-> state_points_si', perf |-> performance',
                     prior |-> state_points_si,
                     runs |-> IF IsNone(snap) THEN 1 ELSE 2])
    /\ UNCHANGED <<p_evap_psia, p_cond_psia, superheat_F, subcooling_F, eta_comp,
                   dome_p_pa, dome_h_si, svc, keys, ret>>

\* self.calculate_dome()
SolveDome ==
    /\ \E r \in {CalcDome(errors, svc)} :
          /\ Len(r.errors) <= MaxLog
          /\ dome_p_pa' = r.dome.p
          /\ dome_h_si' = [liq |-> r.dome.liq, vap |-> r.dome.vap]
          /\ errors' = r.errors
    /\ UNCHANGED <<p_evap_psia, p_cond_psia, superheat_F, subcooling_F, eta_comp,
                   state_points_si, performance, svc, keys, ret, snap>>

\* the stored results are those of the earlier solve again (what the next
\* calculate_cycle finds stored)
StoreEarlier ==
    /\ state_points_si # Earlier.points
    /\ state_points_si' = Earlier.points
    /\ performance' = Earlier.perf
    /\ UNCHANGED <<p_evap_psia, p_cond_psia, superheat_F, subcooling_F, eta_comp,
                   errors, dome_p_pa, dome_h_si, svc, keys, ret, snap>>

SolverNext == SolveCycle \/ SolveDome \/ StoreEarlier

SpecSolver == SolverInit /\ [][SolverNext]_vars

---------------------------------------------------------------------------
(* The adapter on its own: safe_coolprop_call called with any two input    *)
(* values, the service doing any of the three things it can do.            *)

InputValues == {Num(RInt(250000)), NaN, Inf, Str, Absent}
Outcomes == {[k |-> "val", v |-> RInt(5)], [k |-> "nonfinite", v |-> Zero],
             [k |-> "raise", v |-> Zero]}

AdapterInit == Built(Defaults, NormalWorld)

\* self.safe_coolprop_call(out, 'P', v1, 'T', v2, REFRIGERANT)
Call(out, v1, v2, oc) ==
    /\ keys < MaxKeys
    /\ keys' = keys + 1
    /\ \E r \in {SafeCall(errors, "call", out, "P", v1, "T", v2, oc)} :
          /\ Len(r.errors) <= MaxLog
          /\ errors' = r.errors
          /\ ret' = [k |-> IF r.escaped THEN "escaped"
                           ELSE IF IsNone(r.ret) THEN "absent" ELSE "value",
                     v |-> IF IsNone(r.ret) THEN Zero ELSE Get(r.ret),
                     out |-> out, i1 |-> "P", a1 |-> v1, i2 |-> "T", a2 |-> v2]
    /\ UNCHANGED <<p_evap_psia, p_cond_psia, superheat_F, subcooling_F, eta_comp,
                   state_points_si, performance, dome_p_pa, dome_h_si, svc, snap>>

AdapterNext ==
    \E out \in {"H"}, v1 \in InputValues, v2 \in InputValues, oc \in Outcomes :
        Call(out, v1, v2, oc)

SpecAdapter == AdapterInit /\ [][AdapterNext]_vars

---------------------------------------------------------------------------
(* Properties. *)

Order == <<"1", "2s", "2", "3", "4">>
Populated(pts, l) == ~IsNone(pts[l])
AllPopulated(pts) == \A l \in Labels : Populated(pts, l)
H(pts, l) == Get(pts[l]).h
HasValue(perf) ==
    \/ ~IsNone(perf.COP)
    \/ ~IsNone(perf.Q_evap_btu_lb)
    \/ ~IsNone(perf.W_comp_btu_lb)
    \/ ~IsNone(perf.Q_cond_btu_lb)
Logged(m) == Msg(m) \in Texts(errors)

\* C1: in a session (Spec), after any sequence of commands the evaporating
\* pressure is at least 5 psia below the condensing pressure, and the solver
\* has never been run with p_evap >= p_cond (its message is not in the log).
C1_ClampMargin ==
    /\ p_evap_psia + 5 <= p_cond_psia
    /\ ~Logged(MsgPressure)

\* a command has left the pressures where only the clamp puts them: 155/160
\* psia, then RIGHT
C1_Clamped == keys > 0 /\ p_evap_psia = 156 /\ p_cond_psia = 161

\* C2: a run of calculate_cycle with p_evap >= p_cond leaves all five state
\* points and all four performance values empty, whatever was stored before,
\* and the log holds "P_evap must be < P_cond".
C2_InvertedPressures ==
    [][SolveCycle /\ p_evap_psia >= p_cond_psia
         => /\ state_points_si' = EmptyPoints
            /\ performance' = EmptyPerf
            /\ Msg(MsgPressure) \in Texts(errors')]_vars

\* the solver has run with inverted pressures on the results of an earlier
\* successful solve
C2_StaleCleared ==
    /\ ~IsNone(snap)
    /\ p_evap_psia > p_cond_psia
    /\ Get(snap).prior = Earlier.points
    /\ state_points_si = EmptyPoints
    /\ Logged(MsgPressure)

\* C3: after every call of safe_coolprop_call, whatever the two inputs and
\* whatever the service does, no exception has left the adapter, and it has
\* returned a finite number, or None with an entry in the log that names the
\* output property and the two inputs of the call.
C3_NeverEscapes ==
    ret.k # "idle" =>
        \/ ret.k = "value"
        \/ /\ ret.k = "absent"
           /\ CPError("Invalid non-finite input", ret.out, ret.i1, ret.a1, ret.i2, ret.a2)
                  \in Texts(errors)
              \/ CPError("CoolProp returned non-finite value", ret.out, ret.i1, ret.a1,
                         ret.i2, ret.a2) \in Texts(errors)
              \/ CPError("service error", ret.out, ret.i1, ret.a1, ret.i2, ret.a2)
                  \in Texts(errors)

\* C4: after a run of calculate_cycle the populated state points are a prefix
\* of 1, 2s, 2, 3, 4, and the performance record holds a value only if all
\* five are populated.
C4_Prefix ==
    [][SolveCycle
         => /\ \A i \in 1..5 : \A j \in i..5 :
                  Populated(state_points_si', Order[j])
                      => Populated(state_points_si', Order[i])
            /\ HasValue(performance') => AllPopulated(state_points_si')]_vars

\* a run that stopped after point 2: 1, 2s and 2 populated, 3 and 4 and the
\* performance record empty
C4_StoppedAfter2 ==
    /\ ~IsNone(snap)
    /\ Get(snap).points = state_points_si
    /\ Populated(state_points_si, "2")
    /\ ~Populated(state_points_si, "3")
    /\ ~Populated(state_points_si, "4")
    /\ ~HasValue(performance)

\* C5: a run of calculate_cycle that follows an earlier one, the parameters
\* and the service unchanged, gives the state points and performance values
\* of the earlier one, whatever results were stored in between.
C5_SameResults ==
    [][SolveCycle /\ ~IsNone(snap)
         => /\ state_points_si' = Get(snap).points
            /\ performance' = Get(snap).perf]_vars

\* a second run has started from the results of another solve and ended with
\* five points that are not those
C5_SecondRun ==
    /\ ~IsNone(snap)
    /\ Get(snap).runs = 2
    /\ Get(snap).prior = Earlier.points
    /\ state_points_si = Get(snap).points
    /\ state_points_si # Earlier.points
    /\ AllPopulated(state_points_si)

\* C6: drawing a frame leaves the cycle parameters, the state points, the
\* performance record, the dome curve and the error log as they were.
C6_DrawReadOnly ==
    [][Draw => UNCHANGED <<p_evap_psia, p_cond_psia, superheat_F, subcooling_F,
                           eta_comp, state_points_si, performance, dome_p_pa,
                           dome_h_si, errors>>]_vars

Entries(errs) == {errs[i] : i \in 1..Len(errs)}

\* C7: a run of calculate_cycle removes from the log no entry that the dome
\* sampler made, and a run of calculate_dome removes no entry that the cycle
\* solver made.
C7_OtherOriginKept ==
    [][/\ SolveCycle =>
            \A e \in Entries(errors) : e.origin = "dome" => e \in Entries(errors')
       /\ SolveDome =>
            \A e \in Entries(errors) : e.origin = "cycle" => e \in Entries(errors')]_vars

\* both have run, the sampler with a curve to show, and the log holds an
\* entry of each origin
C7_BothOrigins ==
    /\ ~IsNone(snap)
    /\ dome_p_pa # <<>>
    /\ \E e \in Entries(errors) : e.origin = "dome"
    /\ \E e \in Entries(errors) : e.origin = "cycle"

\* C8: no message text is in the error log more than once.
C8_NoRepeatedText == Cardinality(Texts(errors)) = Len(errors)

\* C9: after a run of calculate_cycle COP is present exactly when all five
\* state points are populated and h2 - h1 exceeds 1e-6 J/kg, and then it is
\* (h1 - h4) / (h2 - h1).
C9_Cop ==
    /\ ~IsNone(performance.COP)
         <=> /\ AllPopulated(state_points_si)
             /\ RLt(Rat(1, 1000),
                    RSub(H(state_points_si, "2"), H(state_points_si, "1")))
    /\ ~IsNone(performance.COP)
         => Get(performance.COP) =
               RDiv(RSub(H(state_points_si, "1"), H(state_points_si, "4")),
                    RSub(H(state_points_si, "2"), H(state_points_si, "1")))

\* a command has been handled, and there are all five points with a
\* compression work that does not exceed the epsilon: the heat and work
\* values present, COP absent
C9_WorkBelowEpsilon ==
    /\ keys > 0
    /\ AllPopulated(state_points_si)
    /\ ~IsNone(performance.W_comp_btu_lb)
    /\ IsNone(performance.COP)

\* C10: where the ideal outlet's enthalpy is not above the inlet's, the
\* warning is in the log, point 2 lies the floor divided by the efficiency
\* above point 1, and with every lookup succeeding all five points are
\* populated; and whenever point 2 is populated its enthalpy is strictly
\* above point 1's.
C10_FloorKeepsGoing ==
    /\ Populated(state_points_si, "2")
         => RLt(H(state_points_si, "1"), H(state_points_si, "2"))
    /\ /\ Populated(state_points_si, "2s")
       /\ RLe(H(state_points_si, "2s"), H(state_points_si, "1"))
       => /\ Logged(MsgIsen)
          /\ Populated(state_points_si, "2")
               => H(state_points_si, "2") =
                     RAdd(H(state_points_si, "1"), RDiv(RInt(1), Rat(eta_comp, 100)))
          /\ svc.fault = {} => AllPopulated(state_points_si)

\* a command has been handled, the ideal outlet is below the inlet, and all
\* five points are populated
C10_NegativeWorkSolved ==
    /\ keys > 0
    /\ AllPopulated(state_points_si)
    /\ RLt(H(state_points_si, "2s"), H(state_points_si, "1"))
    /\ Logged(MsgIsen)

\* C11: in a session (Spec) the reset key leaves the five parameters at
\* 35 psia, 160 psia, 10 F, 5 F and 0.75, whatever they were, clamp
\* included, and the results are those of calculate_cycle on these.
C11_Reset ==
    [][HandleInput("r")
         => /\ p_evap_psia' = 35
            /\ p_cond_psia' = 160
            /\ superheat_F' = 100
            /\ subcooling_F' = 50
            /\ eta_comp' = 75
            /\ \E r \in {CalcCycle(state_points_si, performance, errors,
                                   35, 160, 100, 50, 75, svc)} :
                  /\ state_points_si' = r.points
                  /\ performance' = r.perf]_vars

\* one key has been handled and the parameters are the defaults (of the
\* fifteen keys only r leads there in one step), with all five points solved
C11_AfterReset ==
    /\ keys = 1
    /\ p_evap_psia = 35
    /\ p_cond_psia = 160
    /\ superheat_F = 100
    /\ subcooling_F = 50
    /\ eta_comp = 75
    /\ AllPopulated(state_points_si)

\* C12: in a session the compressor efficiency is always above 0.1 and at
\* most 1.0, and "Comp eff must be > 0" is never logged.
C12_EfficiencyInterval ==
    /\ 10 < eta_comp
    /\ eta_comp <= 100
    /\ ~Logged(MsgEff)

\* C13: in a session superheat and subcooling are always at least 0.1 F.
C13_MarginFloor ==
    /\ superheat_F >= 1
    /\ subcooling_F >= 1

\* a key has been handled and the superheat is at the floor, 0.1 F
C13_AtFloor == keys > 0 /\ superheat_F = 1

\* C14: after a run of calculate_dome the curve's pressures are strictly
\* increasing, the apex included, and the pressure, liquid and vapor lists
\* have the same length.
C14_DomeShape ==
    /\ \A i \in 1..(Len(dome_p_pa) - 1) : RLt(dome_p_pa[i], dome_p_pa[i + 1])
    /\ Len(dome_h_si.liq) = Len(dome_p_pa)
    /\ Len(dome_h_si.vap) = Len(dome_p_pa)

\* a curve that lost one sample to a failed lookup and ends with the apex
C14_DroppedAndApex ==
    /\ svc.fault # {}
    /\ svc.fault \subseteq {<<b, i>> : b \in {"liq", "vap"}, i \in 0..(DomeSamples - 1)}
    /\ Len(dome_p_pa) = DomeSamples
    /\ dome_p_pa[Len(dome_p_pa)] = svc.prof.pcrit

\* C15: in every state of a session, so at every frame, each populated point
\* 1 and 4 carries the current evaporating pressure and each populated point
\* 2s, 2 and 3 the current condensing pressure.
C15_PointsAreCurrent ==
    /\ \A l \in {"1", "4"} :
          Populated(state_points_si, l)
              => Get(state_points_si[l]).p = PsiaToPa(p_evap_psia)
    /\ \A l \in {"2s", "2", "3"} :
          Populated(state_points_si, l)
              => Get(state_points_si[l]).p = PsiaToPa(p_cond_psia)

\* keys have moved both pressures off the defaults and all five points are
\* solved
C15_AfterPressureKeys ==
    /\ keys > 0
    /\ p_evap_psia # 35
    /\ p_cond_psia # 160
    /\ AllPopulated(state_points_si)

\* self.h_min_btu_lb, self.h_max_btu_lb (lines 85-86)
h_min_btu_lb == 40
h_max_btu_lb == 210

\* h * J_KG_TO_BTU_LB for h in mJ/kg, in hundredths of a BTU/lb (from the
\* whole hundreds of J/kg, rounded down)
BtuLbHundredths(h) == ((h.n \div (h.d * 100000)) * 43021) \div 10000

\* the enthalpy lies on the enthalpy axis
InEnthalpyWindow(h) ==
    /\ h_min_btu_lb * 100 <= BtuLbHundredths(h)
    /\ BtuLbHundredths(h) <= h_max_btu_lb * 100

\* p_end_pa of line 156 for the service's critical pressure
UpperBound(w) ==
    RMin(RInt(PsiaToPa(p_max_psia)), RMul(w.prof.pcrit, Rat(999, 1000)))

\* the curve holds a sample at the critical pressure
ApexAt(i) == i \in 1..Len(dome_p_pa) /\ dome_p_pa[i] = svc.prof.pcrit

\* C16: after a run of calculate_dome the curve holds the apex only if the
\* upper pressure bound is above 0.9 of the critical pressure, the apex
\* lookup succeeded, the critical pressure is on the pressure axis and the
\* apex enthalpy is on the enthalpy axis; and the apex is the last sample.
C16_ApexConditions ==
    \A i \in 1..Len(dome_p_pa) :
        ApexAt(i) =>
            /\ i = Len(dome_p_pa)
            /\ RLt(RMul(svc.prof.pcrit, Rat(9, 10)), UpperBound(svc))
            /\ <<"apex", 0>> \notin svc.fault
            /\ ApexInWindow(PaToPsia(svc.prof.pcrit))
            /\ InEnthalpyWindow(dome_h_si.liq[i])

\* the keys that adjust only superheat, subcooling or efficiency
MarginKeys == {"s", "x", "a", "z", "e", "d"}

\* C17: in a session, handling a key that adjusts only superheat, subcooling
\* or efficiency leaves both pressures as they were.
C17_PressuresKept ==
    [][\A key \in MarginKeys :
          HandleInput(key) => UNCHANGED <<p_evap_psia, p_cond_psia>>]_vars

\* RIGHT at 395/400 psia has put the condensing pressure above the axis, and
\* a key has raised the superheat there
C17_MarginKeyAboveAxis ==
    /\ keys = 2
    /\ p_evap_psia = 396
    /\ p_cond_psia = 401
    /\ superheat_F = 110

\* C18: in a session the evaporating pressure is always between p_min and
\* p_max - 2 and the condensing pressure is at most p_max.
C18_OnAxis ==
    /\ p_min_psia <= p_evap_psia
    /\ p_evap_psia <= p_max_psia - 2
    /\ p_cond_psia <= p_max_psia

=============================================================================
